---- MODULE Spec2Model ----
(***************************************************************************)
(* Ryze NRTax API: user accounts, premium-gated tax guides and FAQs, and   *)
(* consultation requests.  The relational store is modelled as one         *)
(* sequence of rows per table (row i has id i: ids are autoincrement and   *)
(* nothing is ever deleted); every HTTP handler is one action that leaves  *)
(* its HTTP response in the variable response.                             *)
(***************************************************************************)
EXTENDS Integers, Sequences, FiniteSets, TLC

VARIABLES
    users,          \* table users
    tax_guides,     \* table tax_guides
    faqs,           \* table faqs
    consultations,  \* table consultations
    created_by,     \* history: created_by[i] is the email of the caller whose
                    \* POST /consultations/ inserted consultations[i]
    tokens,         \* bearer tokens issued so far
    issued_premium, \* history: the subjects that got a token while their
                    \* is_premium flag was set
    request,        \* the last HTTP request handled
    response,       \* and the response it got
    reqs            \* POST /users/ requests in flight, step by step

vars == <<users, tax_guides, faqs, consultations, created_by, tokens, issued_premium, request, response, reqs>>

(***************************************************************************)
(* Bounds of the model                                                     *)
(***************************************************************************)
MaxNewRows == 1           \* guides and FAQs POSTed on top of the sample rows
MaxConsultations == 2     \* rows of the consultations table
NumRequests == 2          \* concurrent POST /users/ requests in flight

\* Request inputs
Emails == {"a@x.com", "b@x.com"}
Credentials == {<<"a@x.com", "pw1">>, <<"a@x.com", "pw2">>, <<"b@x.com", "pw1">>}
Subjects == {"s1"}
Windows == {<<0, 100>>, <<1, 2>>}     \* <<skip, limit>>; <<0, 100>> is the default

(***************************************************************************)
(* Python values                                                           *)
(***************************************************************************)
\* Optional[T] is a sequence: <<>> is None, <<x>> is the object x.
None == <<>>
Truthy(opt) == opt # None
Some(x) == <<x>>
Val(opt) == opt[1]

Min(a, b) == IF a < b THEN a ELSE b

\* Query.first(): the first row or None
First(rows) == IF rows = <<>> THEN None ELSE Some(Head(rows))

\* Query.offset(skip).limit(limit).all()
OffsetLimit(rows, skip, limit) ==
    SubSeq(rows, skip + 1, Min(Len(rows), skip + limit))

(***************************************************************************)
(* models.py: rows and column defaults                                     *)
(***************************************************************************)
\* User(email=..., hashed_password=...): is_active defaults to True and
\* is_premium to False; id is the autoincrement primary key.
User(id, email, hashed_password) ==
    [id |-> id, email |-> email, hashed_password |-> hashed_password,
     is_active |-> TRUE, is_premium |-> FALSE]

TaxGuide(id, title, content, is_premium) ==
    [id |-> id, title |-> title, content |-> content, is_premium |-> is_premium]

FAQ(id, question, answer, category, is_premium) ==
    [id |-> id, question |-> question, answer |-> answer,
     category |-> category, is_premium |-> is_premium]

\* status defaults to "pending"
Consultation(id, user_id, subject, message) ==
    [id |-> id, user_id |-> user_id, subject |-> subject, message |-> message,
     status |-> "pending"]

\* main.py startup_event: the sample rows added to an empty tax_guides table
SampleTaxGuides ==
    << TaxGuide(1, "US-China Tax Treaty Overview", "treaty...", FALSE),
       TaxGuide(2, "Form 1040-NR Guide for International Students", "1040-NR...", FALSE),
       TaxGuide(3, "Scholarship Taxation for Non-Residents", "scholarships...", FALSE),
       TaxGuide(4, "Advanced Tax Planning for Non-Residents", "premium guide...", TRUE) >>

SampleFaqs ==
    << FAQ(1, "Do I need to file?", "Yes...", "Filing Requirements", FALSE),
       FAQ(2, "What is Form 8843?", "Form 8843 is...", "Forms", FALSE),
       FAQ(3, "US-China tax treaty?", "The treaty may...", "Tax Treaties", FALSE),
       FAQ(4, "What tax deductions?", "As a non-resident...", "Deductions", TRUE) >>

Categories == {"Forms", "Deductions"}
NewFaqCategories == {"Deductions"}
\* a free sample guide, the premium sample guide, the ids POST /tax-guides/
\* can give out, and one id that is never given out
GuideIds ==
    {1, Len(SampleTaxGuides)}
        \cup (Len(SampleTaxGuides) + 1 .. Len(SampleTaxGuides) + MaxNewRows + 1)

(***************************************************************************)
(* app.core.auth (not part of the sources at hand): the opaque one-way     *)
(* hash, the token issuer and the token verifier                           *)
(***************************************************************************)
get_password_hash(password) == [hash_of |-> password]

verify_password(password, hashed_password) ==
    hashed_password = get_password_hash(password)

\* A bearer token carries the subject email (and an expiry, which never
\* passes here).
Token(user) == [sub |-> user.email]

\* A request without Authorization header
Anonymous == [sub |-> ""]

(***************************************************************************)
(* crud.py                                                                 *)
(***************************************************************************)
get_user_by_email(db_users, email) ==
    First(SelectSeq(db_users, LAMBDA u : u.email = email))

\* The INSERT of crud.create_user.  users.email is a unique column: the
\* commit of a second row with the same email raises IntegrityError and
\* stores nothing.
create_user(db_users, email, password) ==
    IF \E i \in DOMAIN db_users : db_users[i].email = email
    THEN [db |-> db_users, ret |-> None, raised |-> "IntegrityError"]
    ELSE LET db_user == User(Len(db_users) + 1, email, get_password_hash(password))
         IN [db |-> Append(db_users, db_user), ret |-> Some(db_user), raised |-> ""]

\* a slip: the flag is flipped instead of set
update_user_premium_toggle(db_users, email, is_premium) ==
    LET db == [i \in DOMAIN db_users |->
                 IF db_users[i].email = email
                 THEN [db_users[i] EXCEPT !.is_premium = ~db_users[i].is_premium]
                 ELSE db_users[i]]
    IN [db |-> db, ret |-> get_user_by_email(db, email)]

\* a slip: the UPDATE loses its WHERE clause
update_user_premium_all_rows(db_users, email, is_premium) ==
    LET db == [i \in DOMAIN db_users |->
                 [db_users[i] EXCEPT !.is_premium = is_premium]]
    IN [db |-> db, ret |-> get_user_by_email(db, email)]

update_user_premium(db_users, email, is_premium) ==
    LET db == [i \in DOMAIN db_users |->
                 IF db_users[i].email = email
                 THEN [db_users[i] EXCEPT !.is_premium = is_premium]
                 ELSE db_users[i]]
    IN [db |-> db, ret |-> get_user_by_email(db, email)]

get_tax_guides(db_guides, skip, limit, premium_only) ==
    LET query == IF premium_only
                 THEN SelectSeq(db_guides, LAMBDA g : g.is_premium = TRUE)
                 ELSE db_guides
    IN OffsetLimit(query, skip, limit)

get_tax_guide(db_guides, guide_id) ==
    First(SelectSeq(db_guides, LAMBDA g : g.id = guide_id))

create_tax_guide(db_guides, title, content, is_premium) ==
    LET db_guide == TaxGuide(Len(db_guides) + 1, title, content, is_premium)
    IN [db |-> Append(db_guides, db_guide), ret |-> db_guide]

create_consultation(db_cons, subject, message, user_id) ==
    LET db_consultation == Consultation(Len(db_cons) + 1, user_id, subject, message)
    IN [db |-> Append(db_cons, db_consultation), ret |-> db_consultation]

\* a slip: the query loses its filter
get_user_consultations_unfiltered(db_cons, user_id) == db_cons

get_user_consultations(db_cons, user_id) ==
    SelectSeq(db_cons, LAMBDA c : c.user_id = user_id)

get_faqs(db_faqs, skip, limit, premium_only) ==
    LET query == IF premium_only
                 THEN SelectSeq(db_faqs, LAMBDA f : f.is_premium = TRUE)
                 ELSE db_faqs
    IN OffsetLimit(query, skip, limit)

get_faq_by_category(db_faqs, category) ==
    SelectSeq(db_faqs, LAMBDA f : f.category = category)

create_faq(db_faqs, question, answer, category, is_premium) ==
    LET db_faq == FAQ(Len(db_faqs) + 1, question, answer, category, is_premium)
    IN [db |-> Append(db_faqs, db_faq), ret |-> db_faq]

(***************************************************************************)
(* HTTP requests and responses                                             *)
(***************************************************************************)
Request(endpoint, caller) ==
    [endpoint |-> endpoint, caller |-> caller, guide_id |-> 0, skip |-> 0,
     limit |-> 0, category |-> "", email |-> "", password |-> ""]

NoRequest == Request("", Anonymous)

\* A handler's return value, serialised by its response_model
Ok(body) == [status |-> 200, detail |-> "", body |-> body]

HTTPException(status_code, detail) ==
    [status |-> status_code, detail |-> detail, body |-> <<>>]

\* An exception no handler catches
InternalServerError == HTTPException(500, "Internal Server Error")

Unauthorized == HTTPException(401, "Could not validate credentials")

NoResponse == HTTPException(0, "")

\* Depends(get_current_active_user): the token's subject is looked up in
\* the store on every request; no token, an unknown subject or an inactive
\* user fail the authentication (None here, 401 in the handlers).
get_current_active_user(db_users, caller) ==
    LET user == get_user_by_email(db_users, caller.sub)
    IN IF caller \in tokens /\ Truthy(user) /\ Val(user).is_active
       THEN user ELSE None

\* tax_guides.py and faqs.py declare "current_user: User = None" with no
\* Depends(...): nothing resolves the caller's token for these handlers,
\* which run with the parameter's default.
current_user_default(caller) == None

(***************************************************************************)
(* routers: the handlers as functions of the store and their parameters    *)
(***************************************************************************)
\* routers/users.py create_user, given the result of its lookup
create_user_after_lookup(db_users, db_user, email, password) ==
    IF Truthy(db_user)
    THEN [db |-> db_users, resp |-> HTTPException(400, "Email already registered")]
    ELSE LET r == create_user(db_users, email, password)
         IN IF r.raised # ""
            THEN [db |-> r.db, resp |-> InternalServerError]
            ELSE [db |-> r.db, resp |-> Ok(r.ret)]

\* a slip: the handler inserts without looking the email up
register_without_lookup(db_users, email, password) ==
    create_user_after_lookup(db_users, None, email, password)

\* routers/users.py create_user, run without interruption
register(db_users, email, password) ==
    create_user_after_lookup(db_users, get_user_by_email(db_users, email),
                             email, password)

read_users_me(current_user) == Ok(current_user)

upgrade_to_premium(db_users, current_user) ==
    LET r == update_user_premium(db_users, Val(current_user).email, TRUE)
    IN [db |-> r.db, resp |-> Ok(r.ret)]

read_tax_guides(db_guides, skip, limit, current_user) ==
    LET premium_only == Truthy(current_user) /\ Val(current_user).is_premium
    IN Ok(get_tax_guides(db_guides, skip, limit, premium_only))

read_tax_guide(db_guides, guide_id, current_user) ==
    LET db_guide == get_tax_guide(db_guides, guide_id)
    IN IF db_guide = None
       THEN HTTPException(404, "Tax guide not found")
       ELSE IF Val(db_guide).is_premium
               /\ (~Truthy(current_user) \/ ~Val(current_user).is_premium)
            THEN HTTPException(403, "Premium content requires subscription")
            ELSE Ok(db_guide)

read_faqs(db_faqs, skip, limit, current_user) ==
    LET premium_only == Truthy(current_user) /\ Val(current_user).is_premium
    IN Ok(get_faqs(db_faqs, skip, limit, premium_only))

read_faq_by_category(db_faqs, category) ==
    Ok(get_faq_by_category(db_faqs, category))

read_user_consultations(db_cons, current_user) ==
    Ok(get_user_consultations(db_cons, Val(current_user).id))

(***************************************************************************)
(* The state after construction: empty user and consultation tables, the   *)
(* sample guides and FAQs of startup_event, no request handled yet         *)
(***************************************************************************)
IdleReqs ==
    [i \in 1 .. NumRequests |->
        [pc |-> "idle", email |-> "", password |-> "", db_user |-> None,
         resp |-> NoResponse]]

Init ==
    /\ users = <<>>
    /\ tax_guides = SampleTaxGuides
    /\ faqs = SampleFaqs
    /\ consultations = <<>>
    /\ created_by = <<>>
    /\ tokens = {}
    /\ issued_premium = {}
    /\ request = NoRequest
    /\ response = NoResponse
    /\ reqs = IdleReqs

Callers == tokens \cup {Anonymous}

NewRows == (Len(tax_guides) - Len(SampleTaxGuides)) + (Len(faqs) - Len(SampleFaqs))

(***************************************************************************)
(* One action per endpoint                                                 *)
(***************************************************************************)
\* POST /users/
CreateUser(email, password) ==
    LET r == register(users, email, password)
    IN /\ users' = r.db
       /\ request' = [Request("POST /users/", Anonymous)
                        EXCEPT !.email = email, !.password = password]
       /\ response' = r.resp
       /\ UNCHANGED <<tax_guides, faqs, consultations, created_by, tokens, issued_premium, reqs>>

\* POST /token: a token for the user whose password verifies
Login(email, password) ==
    LET user == get_user_by_email(users, email)
        ok == Truthy(user) /\ verify_password(password, Val(user).hashed_password)
    IN /\ tokens' = IF ok THEN tokens \cup {Token(Val(user))} ELSE tokens
       /\ issued_premium' = IF ok /\ Val(user).is_premium
                            THEN issued_premium \cup {email} ELSE issued_premium
       /\ request' = [Request("POST /token", Anonymous)
                        EXCEPT !.email = email, !.password = password]
       /\ response' = IF ok THEN Ok(<<Token(Val(user))>>)
                      ELSE HTTPException(401, "Incorrect username or password")
       /\ UNCHANGED <<users, tax_guides, faqs, consultations, created_by, reqs>>

\* GET /users/me/
ReadUsersMe(caller) ==
    LET current_user == get_current_active_user(users, caller)
    IN /\ request' = Request("GET /users/me/", caller)
       /\ response' = IF Truthy(current_user) THEN read_users_me(current_user)
                      ELSE Unauthorized
       /\ UNCHANGED <<users, tax_guides, faqs, consultations, created_by, tokens, issued_premium, reqs>>

\* POST /users/me/premium/
UpgradeToPremium(caller) ==
    LET current_user == get_current_active_user(users, caller)
    IN /\ request' = Request("POST /users/me/premium/", caller)
       /\ IF Truthy(current_user)
          THEN LET r == upgrade_to_premium(users, current_user)
               IN users' = r.db /\ response' = r.resp
          ELSE users' = users /\ response' = Unauthorized
       /\ UNCHANGED <<tax_guides, faqs, consultations, created_by, tokens, issued_premium, reqs>>

\* GET /tax-guides/
ReadTaxGuides(caller, skip, limit) ==
    /\ request' = [Request("GET /tax-guides/", caller)
                     EXCEPT !.skip = skip, !.limit = limit]
    /\ response' = read_tax_guides(tax_guides, skip, limit, current_user_default(caller))
    /\ UNCHANGED <<users, tax_guides, faqs, consultations, created_by, tokens, issued_premium, reqs>>

\* GET /tax-guides/{guide_id}
ReadTaxGuide(caller, guide_id) ==
    /\ request' = [Request("GET /tax-guides/{guide_id}", caller)
                     EXCEPT !.guide_id = guide_id]
    /\ response' = read_tax_guide(tax_guides, guide_id, current_user_default(caller))
    /\ UNCHANGED <<users, tax_guides, faqs, consultations, created_by, tokens, issued_premium, reqs>>

\* POST /tax-guides/ (no authentication)
CreateTaxGuide(is_premium) ==
    /\ NewRows < MaxNewRows
    /\ LET r == create_tax_guide(tax_guides, "title", "content", is_premium)
       IN tax_guides' = r.db /\ response' = Ok(<<r.ret>>)
    /\ request' = Request("POST /tax-guides/", Anonymous)
    /\ UNCHANGED <<users, faqs, consultations, created_by, tokens, issued_premium, reqs>>

\* GET /faqs/
ReadFaqs(caller, skip, limit) ==
    /\ request' = [Request("GET /faqs/", caller)
                     EXCEPT !.skip = skip, !.limit = limit]
    /\ response' = read_faqs(faqs, skip, limit, current_user_default(caller))
    /\ UNCHANGED <<users, tax_guides, faqs, consultations, created_by, tokens, issued_premium, reqs>>

\* GET /faqs/category/{category}
ReadFaqByCategory(caller, category) ==
    /\ request' = [Request("GET /faqs/category/{category}", caller)
                     EXCEPT !.category = category]
    /\ response' = read_faq_by_category(faqs, category)
    /\ UNCHANGED <<users, tax_guides, faqs, consultations, created_by, tokens, issued_premium, reqs>>

\* POST /faqs/ (no authentication)
CreateFaq(category, is_premium) ==
    /\ NewRows < MaxNewRows
    /\ LET r == create_faq(faqs, "question", "answer", category, is_premium)
       IN faqs' = r.db /\ response' = Ok(<<r.ret>>)
    /\ request' = Request("POST /faqs/", Anonymous)
    /\ UNCHANGED <<users, tax_guides, consultations, created_by, tokens, issued_premium, reqs>>

\* POST /consultations/
CreateConsultation(caller, subject) ==
    LET current_user == get_current_active_user(users, caller)
    IN /\ Len(consultations) < MaxConsultations
       /\ request' = Request("POST /consultations/", caller)
       /\ IF Truthy(current_user)
          THEN LET r == create_consultation(consultations, subject, "message",
                                            Val(current_user).id)
               IN /\ consultations' = r.db
                  /\ created_by' = Append(created_by, caller.sub)
                  /\ response' = Ok(<<r.ret>>)
          ELSE /\ UNCHANGED <<consultations, created_by>>
               /\ response' = Unauthorized
       /\ UNCHANGED <<users, tax_guides, faqs, tokens, issued_premium, reqs>>

\* GET /consultations/
ReadUserConsultations(caller) ==
    LET current_user == get_current_active_user(users, caller)
    IN /\ request' = Request("GET /consultations/", caller)
       /\ response' = IF Truthy(current_user)
                      THEN read_user_consultations(consultations, current_user)
                      ELSE Unauthorized
       /\ UNCHANGED <<users, tax_guides, faqs, consultations, created_by, tokens, issued_premium, reqs>>

Next ==
    \/ \E c \in Credentials : CreateUser(c[1], c[2])
    \/ \E c \in Credentials : Login(c[1], c[2])
    \/ \E caller \in Callers : ReadUsersMe(caller)
    \/ \E caller \in Callers : UpgradeToPremium(caller)
    \/ \E caller \in Callers, w \in Windows : ReadTaxGuides(caller, w[1], w[2])
    \/ \E caller \in Callers, guide_id \in GuideIds : ReadTaxGuide(caller, guide_id)
    \/ \E is_premium \in BOOLEAN : CreateTaxGuide(is_premium)
    \/ \E caller \in Callers, w \in Windows : ReadFaqs(caller, w[1], w[2])
    \/ \E caller \in Callers, category \in Categories :
          ReadFaqByCategory(caller, category)
    \/ \E category \in NewFaqCategories, is_premium \in BOOLEAN : CreateFaq(category, is_premium)
    \/ \E caller \in Callers, subject \in Subjects : CreateConsultation(caller, subject)
    \/ \E caller \in Callers : ReadUserConsultations(caller)

Spec == Init /\ [][Next]_vars

(***************************************************************************)
(* The account endpoints alone: the handlers that reach the users and the  *)
(* consultations tables                                                    *)
(***************************************************************************)
NextAccounts ==
    \/ \E c \in Credentials : CreateUser(c[1], c[2])
    \/ \E c \in Credentials : Login(c[1], c[2])
    \/ \E caller \in Callers : ReadUsersMe(caller)
    \/ \E caller \in Callers : UpgradeToPremium(caller)
    \/ \E caller \in Callers, subject \in Subjects : CreateConsultation(caller, subject)
    \/ \E caller \in Callers : ReadUserConsultations(caller)

SpecAccounts == Init /\ [][NextAccounts]_vars

(***************************************************************************)
(* The API next to a revocation: crud.update_user_premium(db, email,       *)
(* False), which no endpoint calls, run directly on the store              *)
(***************************************************************************)
Revoke(email) ==
    /\ Truthy(get_user_by_email(users, email))
    /\ users' = update_user_premium(users, email, FALSE).db
    /\ request' = Request("update_user_premium(False)", Anonymous)
    /\ response' = NoResponse
    /\ UNCHANGED <<tax_guides, faqs, consultations, created_by, tokens,
                   issued_premium, reqs>>

NextRevoke ==
    \/ Next
    \/ \E email \in Emails : Revoke(email)

SpecRevoke == Init /\ [][NextRevoke]_vars

(***************************************************************************)
(* Concurrent POST /users/ requests: each runs the handler's lookup and    *)
(* its insert as two steps, and the steps of different requests interleave *)
(***************************************************************************)
InitConc ==
    /\ users = <<>>
    /\ tax_guides = SampleTaxGuides
    /\ faqs = SampleFaqs
    /\ consultations = <<>>
    /\ created_by = <<>>
    /\ tokens = {}
    /\ issued_premium = {}
    /\ request = NoRequest
    /\ response = NoResponse
    /\ \E cs \in [1 .. NumRequests -> Credentials] :
          reqs = [i \in 1 .. NumRequests |->
                    [pc |-> "lookup", email |-> cs[i][1], password |-> cs[i][2],
                     db_user |-> None, resp |-> NoResponse]]

\* db_user = crud.get_user_by_email(db, email=user.email)
RegisterLookup(i) ==
    /\ reqs[i].pc = "lookup"
    /\ reqs' = [reqs EXCEPT ![i].db_user = get_user_by_email(users, reqs[i].email),
                            ![i].pc = "insert"]
    /\ UNCHANGED <<users, tax_guides, faqs, consultations, created_by, tokens,
                   issued_premium, request, response>>

\* if db_user: raise HTTPException(400); return crud.create_user(db, user)
RegisterInsert(i) ==
    /\ reqs[i].pc = "insert"
    /\ LET r == create_user_after_lookup(users, reqs[i].db_user, reqs[i].email,
                                         reqs[i].password)
       IN /\ users' = r.db
          /\ reqs' = [reqs EXCEPT ![i].resp = r.resp, ![i].pc = "done"]
    /\ UNCHANGED <<tax_guides, faqs, consultations, created_by, tokens,
                   issued_premium, request, response>>

NextConc ==
    \/ \E i \in 1 .. NumRequests : RegisterLookup(i)
    \/ \E i \in 1 .. NumRequests : RegisterInsert(i)

SpecConc == InitConc /\ [][NextConc]_vars

(***************************************************************************)
(* Properties                                                              *)
(***************************************************************************)
Range(s) == {s[i] : i \in DOMAIN s}

\* The caller of the last request is an identified user whose is_premium
\* flag is set in the store
CallerIsPremium ==
    /\ request.caller \in tokens
    /\ \E i \in DOMAIN users :
          users[i].email = request.caller.sub /\ users[i].is_premium

CatalogReads ==
    {"GET /tax-guides/", "GET /tax-guides/{guide_id}", "GET /faqs/",
     "GET /faqs/category/{category}"}

\* C1: no read endpoint returns a premium resource to a caller who is
\* anonymous or whose user is not premium.
C1_NoPremiumToNonPremium ==
    (request.endpoint \in CatalogReads /\ ~CallerIsPremium)
        => \A i \in DOMAIN response.body : ~response.body[i].is_premium

\* The rows of the table the last list request ranged over, in its window
ListedTable ==
    IF request.endpoint = "GET /tax-guides/" THEN tax_guides ELSE faqs

Window == OffsetLimit(ListedTable, request.skip, request.limit)

\* C2: a list endpoint answers 200 with every non-premium row of the window
\* for any caller, and with the premium rows of the window exactly when the
\* caller is a premium user.
C2_ListIsFilter ==
    request.endpoint \in {"GET /tax-guides/", "GET /faqs/"}
        => /\ response.status = 200
           /\ \A i \in DOMAIN Window :
                 IF Window[i].is_premium
                 THEN (Window[i] \in Range(response.body)) <=> CallerIsPremium
                 ELSE Window[i] \in Range(response.body)

\* C3: GET /tax-guides/{id} answers 404 when no guide has the id, 403 exactly
\* when the guide is premium and the caller is not a premium user, and the
\* guide itself otherwise.
C3_SingleFetch ==
    request.endpoint = "GET /tax-guides/{guide_id}"
        => LET db_guide == get_tax_guide(tax_guides, request.guide_id)
           IN IF db_guide = None THEN response.status = 404
              ELSE IF Val(db_guide).is_premium /\ ~CallerIsPremium
                   THEN response.status = 403
                   ELSE response.status = 200 /\ response.body = db_guide

\* The registered user the last request's token names
CallerUser == Val(get_user_by_email(users, request.caller.sub))

\* C4: a logged-in user's GET /tax-guides/{id} on a premium guide answers 403
\* before the user's POST /users/me/premium/ and 200 with the guide after it.
C4_UpgradeThenFetch ==
    (/\ request.endpoint = "GET /tax-guides/{guide_id}"
     /\ request.caller \in tokens
     /\ Truthy(get_tax_guide(tax_guides, request.guide_id))
     /\ Val(get_tax_guide(tax_guides, request.guide_id)).is_premium)
        => IF CallerUser.is_premium
           THEN /\ response.status = 200
                /\ response.body = get_tax_guide(tax_guides, request.guide_id)
           ELSE response.status = 403

Registered(db_users, email) == \E i \in DOMAIN db_users : db_users[i].email = email

\* C5: POST /users/ with an email that is not registered creates the user
\* with the hash of the given password; with an email that is registered it
\* fails with 400 "Email already registered" and leaves the users table as it
\* was.
C5_DuplicateEmailRejected ==
    [][request'.endpoint = "POST /users/"
         => IF Registered(users, request'.email)
            THEN /\ response'.status = 400
                 /\ response'.detail = "Email already registered"
                 /\ users' = users
            ELSE /\ response'.status = 200
                 /\ users' = Append(users, User(Len(users) + 1, request'.email,
                                                get_password_hash(request'.password)))
                 /\ response'.body = <<users'[Len(users')]>>]_vars

\* C5 witness: a second registration of an email, with another password,
\* was refused and the row still holds the first password's hash.
C5_Witness ==
    /\ request.endpoint = "POST /users/"
    /\ response.status = 400
    /\ \E i \in DOMAIN users :
          /\ users[i].email = request.email
          /\ users[i].hashed_password # get_password_hash(request.password)
    /\ Cardinality({i \in DOMAIN users : users[i].email = request.email}) = 1

AllDone == \A i \in DOMAIN reqs : reqs[i].pc = "done"

\* C6: when concurrent POST /users/ requests carry the same email, exactly
\* one of them creates the user, every other one gets 400 "Email already
\* registered", and the table never holds two users with one email.
C6_ConcurrentRegistration ==
    /\ \A e \in Emails : Cardinality({i \in DOMAIN users : users[i].email = e}) <= 1
    /\ AllDone
         => \A e \in {reqs[i].email : i \in DOMAIN reqs} :
               LET R == {i \in DOMAIN reqs : reqs[i].email = e}
               IN /\ Cardinality({i \in R : reqs[i].resp.status = 200}) = 1
                  /\ \A i \in R :
                        \/ reqs[i].resp.status = 200
                        \/ /\ reqs[i].resp.status = 400
                           /\ reqs[i].resp.detail = "Email already registered"

\* C7: every consultation is owned by the user whose request created it, and
\* GET /consultations/ returns exactly the caller's own consultations.
C7_OwnConsultationsOnly ==
    /\ DOMAIN created_by = DOMAIN consultations
    /\ \A i \in DOMAIN consultations :
          \E j \in DOMAIN users :
             users[j].id = consultations[i].user_id /\ users[j].email = created_by[i]
    /\ (request.endpoint = "GET /consultations/" /\ response.status = 200)
         => /\ Range(response.body)
                 = {consultations[i] : i \in {k \in DOMAIN consultations :
                                                created_by[k] = request.caller.sub}}
            /\ Len(response.body) = Cardinality(Range(response.body))

\* C7 witness: two users own a consultation each and one of them has listed
\* theirs.
C7_Witness ==
    /\ Len(consultations) >= 2
    /\ \E i, j \in DOMAIN created_by : created_by[i] # created_by[j]
    /\ request.endpoint = "GET /consultations/"
    /\ response.status = 200
    /\ Len(response.body) = 1

\* C8: once the flag of a user who got a token while premium is cleared in
\* the store, every request with that token is answered from the store's
\* state: no premium content, and GET /users/me/ reports is_premium false.
C8_RevokedTokenIsDenied ==
    (/\ request.caller \in tokens
     /\ request.caller.sub \in issued_premium
     /\ ~CallerUser.is_premium)
        => /\ request.endpoint \in CatalogReads
                => \A i \in DOMAIN response.body : ~response.body[i].is_premium
           /\ request.endpoint = "GET /users/me/"
                => response.status = 200 /\ ~response.body[1].is_premium

\* C9: setting the premium flag is idempotent: on every reachable users table
\* a second update_user_premium(email, v) changes nothing and returns what the
\* first returned, and a POST /users/me/premium/ that follows the same
\* caller's successful one leaves the table and the response as they were.
C9_SetPremiumIdempotent ==
    /\ [](\A i \in DOMAIN users : \A v \in BOOLEAN :
            LET once == update_user_premium(users, users[i].email, v)
                twice == update_user_premium(once.db, users[i].email, v)
            IN twice.db = once.db /\ twice.ret = once.ret)
    /\ [][(/\ request.endpoint = "POST /users/me/premium/"
           /\ response.status = 200
           /\ request' = request)
             => users' = users /\ response' = response]_vars

\* C9 witness: a user who logged in while premium (so after an upgrade) has
\* upgraded again.
C9_Witness ==
    /\ request.endpoint = "POST /users/me/premium/"
    /\ response.status = 200
    /\ request.caller.sub \in issued_premium

\* C10: users are never removed, a new user starts with is_premium false, and
\* a flag changes only from false to true and only in the row of the caller
\* of a POST /users/me/premium/.
C10_PremiumOnlyByOwnUpgrade ==
    [][/\ \A i \in DOMAIN users :
            /\ i \in DOMAIN users'
            /\ users'[i].email = users[i].email
            /\ users'[i].is_premium # users[i].is_premium
                 => /\ ~users[i].is_premium
                    /\ users'[i].is_premium
                    /\ request'.endpoint = "POST /users/me/premium/"
                    /\ request'.caller \in tokens
                    /\ request'.caller.sub = users[i].email
       /\ \A i \in DOMAIN users' \ DOMAIN users : ~users'[i].is_premium]_vars

\* C10 witness: one user has upgraded while another one is still not
\* premium.
C10_Witness ==
    /\ request.endpoint = "POST /users/me/premium/"
    /\ response.status = 200
    /\ \E i, j \in DOMAIN users :
          /\ users[i].email = request.caller.sub
          /\ users[i].is_premium
          /\ ~users[j].is_premium

====
